---------------------------- MODULE Spec2Model ----------------------------
(***************************************************************************)
(* A model of dorelease.py, the release script of gin-cli: build the       *)
(* binaries, fetch the third-party dependencies, package every platform    *)
(* and link the "latest" aliases.                                          *)
(*                                                                         *)
(* Conventions.                                                            *)
(*  - A string of the script (a path, a URL, a file name) is a sequence of  *)
(*    segments, the parts between "/", and a segment is a sequence of       *)
(*    tokens.  `tok in s` of the script is In(tok, s), s.replace(a, b) is   *)
(*    Replace(s, a, b): neither is the identity.                            *)
(*  - None is the empty sequence.                                           *)
(*  - run(cmd) ends "ok" (exit status 0), "fail" (exit status > 0) or       *)
(*    "oserror" (subprocess.call raises: the tool cannot be started).  A    *)
(*    tool that the run has started once can be started again.              *)
(*  - An exception nobody catches ends the run: pc = "raised", and          *)
(*    raisedIn names the function it was raised in.                         *)
(***************************************************************************)
EXTENDS Integers, Sequences, FiniteSets, TLC

VARIABLES
    pc,            \* position of the run in main() and the functions it calls
    raisedIn,      \* function an uncaught exception was raised in, or NOWHERE
    log,           \* diagnostics printed so far (the ones the properties read)
    VERSION,       \* VERSION["version"]
    binfiles,      \* what build() returned
    remote,        \* the servers: url -> [etag, size]
    ETAGS,         \* the ETAGS dictionary of the process
    etagfile,      \* dist/etags on disk
    downloads,     \* dist/downloads: file name -> size
    req,           \* download(): url and headers of the response, or NONE
    dlfor,         \* download(): the call site to return to
    assets,        \* get_git_for_windows(): assets not yet visited
    downloaded,    \* get_git_for_windows(): the list being built
    fresh,         \* urls whose last transfer was complete and is still current
    saved,         \* the run has executed save_etags()
    runs,          \* number of runs started
    changes,       \* number of changes of the remote resources
    annexsa_file,
    win_git_files,
    mac_annex_tar,
    linux_pkg,
    deb_pkg,
    mac_pkg,
    mac_bundle,
    win_pkg_32,
    win_pkg_64,
    pkg,           \* dist/pkg: [dir: name -> inode, data: inode -> content]
    tmpdirs,       \* temporary directories that exist
    docker,        \* debianize(): docker commands issued by this call
    debfail,       \* debianize(): steps of this call that exited non-zero
    tree,          \* package_mac_bundle(): the staging tree
    archived,      \* the tree the bundle's tar archived
    cwd,           \* working directory of the process
    oldwd,         \* winbundle(): saved working directory
    wbits,         \* winbundle(): which of the two calls is running
    present        \* external tools the run has started so far

mainVars  == <<pc, raisedIn, log, VERSION, binfiles>>
fetchVars == <<remote, ETAGS, etagfile, downloads, req, dlfor, assets,
               downloaded, fresh, saved, runs, changes>>
depVars   == <<annexsa_file, win_git_files, mac_annex_tar>>
resVars   == <<linux_pkg, deb_pkg, mac_pkg, mac_bundle, win_pkg_32, win_pkg_64>>
debLoc    == <<docker, debfail>>
macLoc    == <<tree, archived>>
winLoc    == <<cwd, oldwd, wbits>>
locVars   == <<tmpdirs, debLoc, macLoc, winLoc, present>>
vars      == <<mainVars, fetchVars, depVars, resVars, pkg, locVars>>

-----------------------------------------------------------------------------
(* Bounds *)

MaxSize    == 2    \* largest content-length of a remote resource
MaxAssets  == 3    \* longest asset list of the release API's answer
MaxRuns    == 2    \* runs of the fetch stage (SpecFetch)
MaxChanges == 1    \* changes of the remote resources (SpecFetch)

-----------------------------------------------------------------------------
(* Strings *)

NONE == <<>>

Range(f) == {f[x] : x \in DOMAIN f}

\* `tok in s`
In(tok, s) == \E i \in DOMAIN s : \E j \in DOMAIN s[i] : s[i][j] = tok

\* s.replace(old, new)
Replace(s, old, new) ==
    [i \in DOMAIN s |->
        [j \in DOMAIN s[i] |-> IF s[i][j] = old THEN new ELSE s[i][j]]]

\* os.path.split(p)
Dirname(p)  == SubSeq(p, 1, Len(p) - 1)
Basename(p) == p[Len(p)]

\* os.path.join(d, name), name one segment
Join(d, seg) == Append(d, seg)

DESTDIR == << <<"dist">> >>
PKGDIR  == Join(DESTDIR, <<"pkg">>)

Versions == {"1.0", "1.1"}


-----------------------------------------------------------------------------
(* Dictionaries *)

Get(d, k) == IF k \in DOMAIN d THEN d[k] ELSE "None"

Put(d, k, v) == [x \in DOMAIN d \cup {k} |-> IF x = k THEN v ELSE d[x]]

Update(d, e) ==
    [x \in DOMAIN d \cup DOMAIN e |-> IF x \in DOMAIN e THEN e[x] ELSE d[x]]

EMPTY == <<>>

-----------------------------------------------------------------------------
(* The world outside the script *)

ToolOutcomes == {"ok", "fail", "oserror"}

\* How run(cmd) may end for a tool, given the tools started so far
Outcomes(tool, started) ==
    IF tool \in started THEN ToolOutcomes \ {"oserror"} ELSE ToolOutcomes

\* The tools started after run(cmd) ended with o
Started(tool, o, started) ==
    IF o = "oserror" THEN started ELSE started \cup {tool}

\* run(cmd) > 0
Failed(o) == o = "fail"

NOWHERE == "none"

Bin(os, arch, file) == << <<"dist">>, <<os, arch>>, <<file>> >>

L64  == Bin("linux", "amd64", "gin")
L386 == Bin("linux", "386", "gin")
D64  == Bin("darwin", "amd64", "gin")
W386 == Bin("windows", "386", "gin.exe")
W64  == Bin("windows", "amd64", "gin.exe")
WARM == Bin("windows", "arm", "gin.exe")

\* What glob() may find under dist/ after gox: the four binaries of this
\* build, binaries left by an earlier build, or fewer than four.
GlobResults ==
    { <<L64, D64, W386, W64>>,
      <<L386, L64, D64, WARM, W386, W64>>,
      <<D64, W386, W64>>,
      <<L64, W386, W64>>,
      <<L64, D64, W64>> }

AnnexUrl ==
    << <<"downloads.kitenet.net">>, <<"git-annex-standalone-amd64", "tar.gz">> >>

Asset(name) ==
    [name |-> name, browser_download_url |-> << <<"github.com">>, name >>]

P32 == Asset(<<"PortableGit", "32-bit", "7z.exe">>)
P64 == Asset(<<"PortableGit", "64-bit", "7z.exe">>)
G64 == Asset(<<"Git", "64-bit", "exe">>)

Assets == {P32, P64, G64}

\* The "assets" list of the release API's answer
AssetLists == UNION {[1..n -> Assets] : n \in 0..MaxAssets}

Urls == {AnnexUrl} \cup {a.browser_download_url : a \in Assets}

Etags == {"e1", "e2"}

RemoteVals == [etag : Etags, size : 1..MaxSize]

MacTarPath ==
    << <<".">>, <<"dist">>, <<"downloads">>, <<"git-annex-latest-macos", "tar.bz2">> >>

NOREQ == [url |-> NONE, etag |-> "", size |-> 0]

\* download(), l.63-65
Fname(url) == Join(Join(DESTDIR, <<"downloads">>), Basename(url))

-----------------------------------------------------------------------------
(* Leaving by an exception *)

Raise(fn) ==
    /\ pc' = "raised"
    /\ raisedIn' = fn

\* run(cmd), l.33-35, ends with o
RunTool(tool, o) ==
    /\ o \in Outcomes(tool, present)
    /\ present' = Started(tool, o, present)

-----------------------------------------------------------------------------
(* build() *)

Build_Version ==
    /\ pc = "build_ver"
    /\ \E v \in Versions : VERSION' = v
    /\ pc' = "build_vcs"
    /\ UNCHANGED <<raisedIn, log, binfiles, fetchVars, depVars, resVars, pkg, locVars>>

\* git rev-list / git rev-parse through check_output
Build_Vcs ==
    /\ pc = "build_vcs"
    /\ \E ok \in BOOLEAN :
          IF ok THEN pc' = "build_gox" /\ UNCHANGED raisedIn
                ELSE Raise("build")
    /\ UNCHANGED <<log, VERSION, binfiles, fetchVars, depVars, resVars, pkg, locVars>>

\* A variant of die() that prints the message and returns to build()
DiePrintsOnly(msg) ==
    /\ log' = log \cup {msg}
    /\ pc' = "build_glob"

\* die(msg), l.93-98, called at l.140
die(msg) ==
    /\ log' = log \cup {msg}
    /\ pc' = "exit1"

Build_Gox ==
    /\ pc = "build_gox"
    /\ \E o \in ToolOutcomes :
          /\ RunTool("gox", o)
          /\ CASE o = "ok"  -> pc' = "build_glob" /\ UNCHANGED <<raisedIn, log>>
               [] Failed(o) -> die("Build failed") /\ UNCHANGED raisedIn
               [] OTHER     -> Raise("build") /\ UNCHANGED log
    /\ UNCHANGED <<VERSION, binfiles, fetchVars, depVars, resVars, pkg,
                   tmpdirs, debLoc, macLoc, winLoc>>

Build_Glob ==
    /\ pc = "build_glob"
    /\ \E g \in GlobResults : binfiles' = g
    /\ pc' = "build_check"
    /\ UNCHANGED <<raisedIn, log, VERSION, fetchVars, depVars, resVars, pkg, locVars>>

\* The binaries of the host platform are run with --version (check_output)
Build_Check ==
    /\ pc = "build_check"
    /\ \/ pc' = "load_etags" /\ UNCHANGED raisedIn
       \/ /\ \E plat \in {"linux", "darwin"} :
                \E i \in DOMAIN binfiles : In(plat, binfiles[i])
          /\ Raise("build")
    /\ UNCHANGED <<log, VERSION, binfiles, fetchVars, depVars, resVars, pkg, locVars>>

-----------------------------------------------------------------------------
(* load_etags(), save_etags(), download() *)

LoadEtags ==
    /\ pc = "load_etags"
    /\ ETAGS' = Update(ETAGS, etagfile)
    /\ pc' = "dl_annex"
    /\ UNCHANGED <<raisedIn, log, VERSION, binfiles, remote, etagfile, downloads,
                   req, dlfor, assets, downloaded, fresh, saved, runs, changes,
                   depVars, resVars, pkg, locVars>>

SaveEtags ==
    /\ pc = "save_etags"
    /\ etagfile' = ETAGS
    /\ saved' = TRUE
    /\ pc' = "check_count"
    /\ UNCHANGED <<raisedIn, log, VERSION, binfiles, remote, ETAGS, downloads,
                   req, dlfor, assets, downloaded, fresh, runs, changes,
                   depVars, resVars, pkg, locVars>>

\* download() returns val to its call site
DlReturn(val) ==
    /\ req' = NOREQ
    /\ dlfor' = NOWHERE
    /\ IF dlfor = "download_annex_sa"
          THEN /\ annexsa_file' = val
               /\ pc' = "gw_api"
               /\ UNCHANGED downloaded
          ELSE /\ downloaded' = Append(downloaded, val)
               /\ pc' = "gw_loop"
               /\ UNCHANGED annexsa_file

\* l.76-78: the etag is the cached one and the file is there with the
\* announced size
SkipDownload(etag, oldet, exists, fod_size, size) ==
    etag = oldet /\ exists /\ fod_size = size

\* A variant of l.81 that forgets the etag
StoreEtagNot(etags, url, etag) == etags

\* l.81
StoreEtag(etags, url, etag) == Put(etags, url, etag)

\* The file of r.url is complete and is the remote resource, unless that
\* changed after the request
Current(f, r) ==
    IF remote[r.url] = [etag |-> r.etag, size |-> r.size]
      THEN f \cup {r.url}
      ELSE f \ {r.url}

\* l.68-72: the request; the body is not read yet (stream=True)
Dl_Get ==
    /\ pc = "dl_get"
    /\ \/ /\ DlReturn(NONE)
          /\ UNCHANGED fresh
       \/ /\ req' = [req EXCEPT !.etag = remote[req.url].etag,
                                !.size = remote[req.url].size]
          /\ pc' = "dl_check"
          /\ UNCHANGED <<dlfor, downloaded, annexsa_file, fresh>>
    /\ UNCHANGED <<raisedIn, log, VERSION, binfiles, remote, ETAGS, etagfile,
                   downloads, assets, saved, runs, changes,
                   win_git_files, mac_annex_tar, resVars, pkg, locVars>>

\* l.73-81
Dl_Check ==
    /\ pc = "dl_check"
    /\ LET fname == Fname(req.url)
           exists == fname \in DOMAIN downloads
       IN  IF SkipDownload(req.etag, Get(ETAGS, req.url), exists,
                           IF exists THEN downloads[fname] ELSE 0, req.size)
             THEN /\ DlReturn(fname)
                  /\ UNCHANGED <<ETAGS, fresh>>
             ELSE /\ ETAGS' = StoreEtag(ETAGS, req.url, req.etag)
                  /\ fresh' = fresh \ {req.url}
                  /\ pc' = "dl_body"
                  /\ UNCHANGED <<req, dlfor, downloaded, annexsa_file>>
    /\ UNCHANGED <<raisedIn, log, VERSION, binfiles, remote, etagfile,
                   downloads, assets, saved, runs, changes,
                   win_git_files, mac_annex_tar, resVars, pkg, locVars>>

\* l.82-90: the file is opened for writing and the body is read into it;
\* iter_content may raise before the end
Dl_Body ==
    /\ pc = "dl_body"
    /\ LET fname == Fname(req.url)
       IN  \/ /\ downloads' = Put(downloads, fname, req.size)
              /\ fresh' = Current(fresh, req)
              /\ DlReturn(fname)
              /\ UNCHANGED raisedIn
           \/ /\ \E prog \in 0..(req.size - 1) :
                    downloads' = Put(downloads, fname, prog)
              /\ fresh' = fresh \ {req.url}
              /\ Raise(dlfor)
              /\ UNCHANGED <<req, dlfor, downloaded, annexsa_file>>
    /\ UNCHANGED <<log, VERSION, binfiles, remote, ETAGS, etagfile,
                   assets, saved, runs, changes,
                   win_git_files, mac_annex_tar, resVars, pkg, locVars>>

-----------------------------------------------------------------------------
(* The fetch stage of main(), l.515-520 *)

\* download_annex_sa()
DownloadAnnexSa ==
    /\ pc = "dl_annex"
    /\ req' = [NOREQ EXCEPT !.url = AnnexUrl]
    /\ dlfor' = "download_annex_sa"
    /\ pc' = "dl_get"
    /\ UNCHANGED <<raisedIn, log, VERSION, binfiles, remote, ETAGS, etagfile,
                   downloads, assets, downloaded, fresh, saved, runs, changes,
                   depVars, resVars, pkg, locVars>>

\* get_git_for_windows(), l.186-191: the request is not guarded; the API
\* answers with one of lists
Gw_ApiFrom(lists) ==
    /\ pc = "gw_api"
    /\ \/ /\ \E l \in lists : assets' = l
          /\ downloaded' = <<>>
          /\ pc' = "gw_loop"
          /\ UNCHANGED raisedIn
       \/ /\ Raise("get_git_for_windows")
          /\ UNCHANGED <<assets, downloaded>>
    /\ UNCHANGED <<log, VERSION, binfiles, remote, ETAGS, etagfile, downloads,
                   req, dlfor, fresh, saved, runs, changes,
                   depVars, resVars, pkg, locVars>>

Gw_Api == Gw_ApiFrom(AssetLists)

\* get_git_for_windows(), l.192-196
Gw_Loop ==
    /\ pc = "gw_loop"
    /\ IF assets = <<>>
         THEN /\ win_git_files' = downloaded
              /\ downloaded' = <<>>
              /\ pc' = "mac_check"
              /\ UNCHANGED <<assets, req, dlfor>>
         ELSE /\ assets' = Tail(assets)
              /\ IF In("PortableGit", <<Head(assets).name>>)
                   THEN /\ req' = [NOREQ EXCEPT !.url = Head(assets).browser_download_url]
                        /\ dlfor' = "get_git_for_windows"
                        /\ pc' = "dl_get"
                   ELSE /\ pc' = "gw_loop"
                        /\ UNCHANGED <<req, dlfor>>
              /\ UNCHANGED <<win_git_files, downloaded>>
    /\ UNCHANGED <<raisedIn, log, VERSION, binfiles, remote, ETAGS, etagfile,
                   downloads, fresh, saved, runs, changes,
                   annexsa_file, mac_annex_tar, resVars, pkg, locVars>>

\* check_macos_tarball()
CheckMacosTarball ==
    /\ pc = "mac_check"
    /\ \E found \in BOOLEAN :
          mac_annex_tar' = IF found THEN MacTarPath ELSE NONE
    /\ pc' = "save_etags"
    /\ UNCHANGED <<raisedIn, log, VERSION, binfiles, fetchVars,
                   annexsa_file, win_git_files, resVars, pkg, locVars>>


-----------------------------------------------------------------------------
(* dist/pkg: names, inodes and their content *)

Exists(fs, n) == n \in DOMAIN fs.dir

\* The smallest inode number not in use
NewIno(fs) ==
    CHOOSE i \in 1..(Cardinality(DOMAIN fs.data) + 1) :
        /\ i \notin DOMAIN fs.data
        /\ \A j \in 1..(i - 1) : j \in DOMAIN fs.data

\* os.remove / os.unlink: the inode goes with its last name
Unlink(fs, n) ==
    LET dir == [x \in DOMAIN fs.dir \ {n} |-> fs.dir[x]]
    IN  [dir |-> dir, data |-> [i \in Range(dir) |-> fs.data[i]]]

\* open(n, O_WRONLY | O_CREAT | O_TRUNC) and write c: an existing file keeps
\* its inode, and so do its other names
WriteFile(fs, n, c) ==
    IF Exists(fs, n)
      THEN [fs EXCEPT !.data[fs.dir[n]] = c]
      ELSE LET i == NewIno(fs)
           IN  [dir |-> Put(fs.dir, n, i), data |-> Put(fs.data, i, c)]

\* os.link(src, dst), dst not there
HardLink(fs, src, dst) == [fs EXCEPT !.dir = Put(fs.dir, dst, fs.dir[src])]

\* What a run writes into an archive
Content(name, gen) == [of |-> name, gen |-> gen]

EmptyPkg == [dir |-> EMPTY, data |-> EMPTY]

\* os.path.split(os.path.split(binfile)[0])[1]
OsArch(binfile) == Basename(Dirname(binfile))

ReplaceSeg(seg, old, new) ==
    [j \in DOMAIN seg |-> IF seg[j] = old THEN new ELSE seg[j]]

\* l.219-220
LinuxArchive(ver, binfile) ==
    Join(PKGDIR, <<"gin-cli", ver>> \o OsArch(binfile) \o <<"tar.gz">>)

\* l.268, l.339
DebFileDest(ver) == Join(PKGDIR, <<"gin-cli", ver, "deb">>)

\* l.361-365
MacArchive(ver, binfile) ==
    Join(PKGDIR, <<"gin-cli", ver>>
                   \o ReplaceSeg(OsArch(binfile), "darwin", "macos")
                   \o <<"tar.gz">>)

\* l.417-422
BundleArchive(ver, binfile) ==
    Join(PKGDIR, <<"gin-cli", ver>>
                   \o ReplaceSeg(OsArch(binfile), "darwin", "macos")
                   \o <<"bundle", "tar.gz">>)

\* l.481-485
WinArchive(ver, binfile) ==
    Join(PKGDIR, <<"gin-cli", ver>> \o OsArch(binfile) \o <<"zip">>)

\* The archives of a complete run of version v and their aliases, as the run
\* leaves them
EarlierNames(v) ==
    << LinuxArchive(v, L64), DebFileDest(v), MacArchive(v, D64),
       BundleArchive(v, D64), WinArchive(v, W386), WinArchive(v, W64) >>

EarlierPkg(v) ==
    LET names == EarlierNames(v)
        ino(n) == CHOOSE i \in DOMAIN names : names[i] = n
        all   == Range(names) \cup {Replace(n, v, "latest") : n \in Range(names)}
    IN  [dir  |-> [n \in all |->
                     IF n \in Range(names)
                       THEN ino(n)
                       ELSE ino(CHOOSE m \in Range(names) : Replace(m, v, "latest") = n)],
         data |-> [i \in DOMAIN names |-> Content(names[i], "earlier")]]

-----------------------------------------------------------------------------
(* main(), l.522-538 *)

\* l.530-532
LinuxBins  == SelectSeq(binfiles, LAMBDA b : In("linux", b))
WinBins    == SelectSeq(binfiles, LAMBDA b : In("windows", b))
DarwinBins == SelectSeq(binfiles, LAMBDA b : In("darwin", b))

\* l.522
Main_CheckCount ==
    /\ pc = "check_count"
    /\ IF Len(win_git_files) # 2
         THEN /\ pc' = "exit1"
              /\ log' = log \cup {"Need two Git archives for Windows"}
         ELSE /\ pc' = "filter_bins"
              /\ UNCHANGED log
    /\ UNCHANGED <<raisedIn, VERSION, binfiles, fetchVars, depVars, resVars, pkg, locVars>>

\* A variant of the test of l.534 that reports the count only when every
\* platform's is wrong
UnexpectedCountAll(nlinux, nwin, ndarwin) ==
    nlinux # 1 /\ nwin # 2 /\ ndarwin # 1

\* l.534
UnexpectedCount(nlinux, nwin, ndarwin) ==
    nlinux # 1 \/ nwin # 2 \/ ndarwin # 1

\* l.530-538: the count is printed, and the run goes on
Main_FilterBins ==
    /\ pc = "filter_bins"
    /\ log' = IF UnexpectedCount(Len(LinuxBins), Len(WinBins), Len(DarwinBins))
                THEN log \cup {"Unexpected number of binaries"}
                ELSE log
    /\ pc' = "linux_plain"
    /\ UNCHANGED <<raisedIn, VERSION, binfiles, fetchVars, depVars, resVars, pkg, locVars>>

-----------------------------------------------------------------------------
(* Temporary directories *)

\* A variant that removes the directory at the end of the block and at a
\* return, and leaves it when an exception passes (tempfile.mkdtemp() with a
\* removal written before each return)
TmpCleanupNoRaise(dirs, d, how) == IF how = "raise" THEN dirs ELSE dirs \ {d}

\* Leaving the block of `with TemporaryDirectory(...) as tmpdir`, by a return
\* ("return"), by its end ("end") or by an exception ("raise"): the directory
\* is removed
TmpCleanup(dirs, d, how) == dirs \ {d}

-----------------------------------------------------------------------------
(* package_linux_plain(), l.211-226, called at l.541 *)

PackageLinuxPlain ==
    /\ pc = "linux_plain"
    /\ IF LinuxBins = <<>>
         THEN /\ Raise("main")
              /\ UNCHANGED <<linux_pkg, pkg, present>>
         ELSE LET archive == LinuxArchive(VERSION, LinuxBins[1])
              IN  \E o \in ToolOutcomes :
                     /\ RunTool("tar", o)
                     /\ CASE o = "ok" ->
                                 /\ pkg' = WriteFile(pkg, archive, Content(archive, "run"))
                                 /\ linux_pkg' = archive
                                 /\ pc' = "deb_cleanup"
                                 /\ UNCHANGED raisedIn
                          [] Failed(o) ->
                                 /\ linux_pkg' = NONE
                                 /\ pc' = "deb_cleanup"
                                 /\ UNCHANGED <<raisedIn, pkg>>
                          [] OTHER ->
                                 /\ Raise("package_linux_plain")
                                 /\ UNCHANGED <<linux_pkg, pkg>>
    /\ UNCHANGED <<log, VERSION, binfiles, fetchVars, depVars,
                   deb_pkg, mac_pkg, mac_bundle, win_pkg_32, win_pkg_64,
                   tmpdirs, debLoc, macLoc, winLoc>>

-----------------------------------------------------------------------------
(* debianize(), l.229-345, called at l.542 *)

\* docker_cleanup(), l.233-238: the exit statuses are not read
DockerCleanup(cmds) == cmds \o <<"kill", "rm">>

DebLabels == {"deb_cleanup", "deb_build", "deb_stage", "deb_gzip", "deb_tar",
              "deb_run", "deb_cleanup_fail", "deb_return_none", "deb_copy",
              "deb_cleanup_done", "deb_return"}

\* debianize() returns val to l.542; rpmify() of l.544 returns [] and does
\* nothing
DebReturn(val, how) ==
    /\ deb_pkg' = val
    /\ tmpdirs' = TmpCleanup(tmpdirs, "gin-linux", how)
    /\ docker' = <<>>
    /\ debfail' = {}
    /\ pc' = "mac_plain"
    /\ UNCHANGED raisedIn

DebRaise(how) ==
    /\ Raise("debianize")
    /\ tmpdirs' = TmpCleanup(tmpdirs, "gin-linux", how)
    /\ UNCHANGED <<deb_pkg, docker, debfail>>

\* A step that stays in the block
DebStep(cmds, failed, next) ==
    /\ docker' = cmds
    /\ debfail' = failed
    /\ pc' = next
    /\ UNCHANGED <<raisedIn, tmpdirs, deb_pkg>>

DebFrame ==
    UNCHANGED <<log, VERSION, binfiles, fetchVars, depVars, linux_pkg,
                mac_pkg, mac_bundle, win_pkg_32, win_pkg_64, macLoc, winLoc>>

\* l.240, before the block
Deb_Cleanup ==
    /\ pc = "deb_cleanup"
    /\ \E o \in ToolOutcomes :
          /\ RunTool("docker", o)
          /\ IF o = "oserror"
               THEN /\ Raise("debianize")
                    /\ UNCHANGED <<tmpdirs, deb_pkg, docker, debfail>>
               ELSE DebStep(DockerCleanup(docker), debfail, "deb_build")
    /\ UNCHANGED pkg
    /\ DebFrame

\* l.248-251: the temporary directory is made, the image is built; the exit
\* status of docker build is not read
Deb_Build ==
    /\ pc = "deb_build"
    /\ \E o \in ToolOutcomes :
          /\ RunTool("docker", o)
          /\ IF o = "oserror"
               THEN /\ Raise("debianize")
                    /\ tmpdirs' = TmpCleanup(tmpdirs \cup {"gin-linux"}, "gin-linux", "raise")
                    /\ UNCHANGED <<deb_pkg, docker, debfail>>
               ELSE /\ tmpdirs' = tmpdirs \cup {"gin-linux"}
                    /\ docker' = Append(docker, "build")
                    /\ debfail' = IF Failed(o) THEN debfail \cup {"build"} ELSE debfail
                    /\ pc' = "deb_stage"
                    /\ UNCHANGED <<raisedIn, deb_pkg>>
    /\ UNCHANGED pkg
    /\ DebFrame

\* l.264-307: the package tree is staged from files of the repository
Deb_Stage ==
    /\ pc = "deb_stage"
    /\ DebStep(docker, debfail, "deb_gzip")
    /\ UNCHANGED <<pkg, present>>
    /\ DebFrame

\* l.310-316: a failure is printed, and the function goes on
Deb_Gzip ==
    /\ pc = "deb_gzip"
    /\ \E o \in ToolOutcomes :
          /\ RunTool("gzip", o)
          /\ IF o = "oserror"
               THEN DebRaise("raise")
               ELSE DebStep(docker,
                            IF Failed(o) THEN debfail \cup {"gzip"} ELSE debfail,
                            "deb_tar")
    /\ UNCHANGED pkg
    /\ DebFrame

\* l.319-324: ' '.join(cmd) raises TypeError when annexsa_archive is None
Deb_Tar ==
    /\ pc = "deb_tar"
    /\ IF annexsa_file = NONE
         THEN /\ DebRaise("raise")
              /\ UNCHANGED present
         ELSE \E o \in ToolOutcomes :
                 /\ RunTool("tar", o)
                 /\ CASE o = "ok"  -> DebStep(docker, debfail, "deb_run")
                      [] Failed(o) -> DebReturn(NONE, "return")
                      [] OTHER     -> DebRaise("raise")
    /\ UNCHANGED pkg
    /\ DebFrame

\* l.326-333: the build runs in the container
Deb_Run ==
    /\ pc = "deb_run"
    /\ \E o \in ToolOutcomes :
          /\ RunTool("docker", o)
          /\ CASE o = "ok"  -> DebStep(Append(docker, "run"), debfail, "deb_copy")
               [] Failed(o) -> DebStep(Append(docker, "run"), debfail \cup {"run"},
                                       "deb_cleanup_fail")
               [] OTHER     -> DebRaise("raise")
    /\ UNCHANGED pkg
    /\ DebFrame

\* l.334
Deb_CleanupFail ==
    /\ pc = "deb_cleanup_fail"
    /\ \E o \in ToolOutcomes :
          /\ RunTool("docker", o)
          /\ IF o = "oserror"
               THEN DebRaise("raise")
               ELSE DebStep(DockerCleanup(docker), debfail, "deb_return_none")
    /\ UNCHANGED pkg
    /\ DebFrame

\* l.335
Deb_ReturnNone ==
    /\ pc = "deb_return_none"
    /\ DebReturn(NONE, "return")
    /\ UNCHANGED <<pkg, present>>
    /\ DebFrame

\* l.337-343: the container has left gin-cli.deb in the temporary directory,
\* or it has not and shutil.copy raises
Deb_Copy ==
    /\ pc = "deb_copy"
    /\ LET debfiledest == DebFileDest(VERSION)
           removed == IF Exists(pkg, debfiledest) THEN Unlink(pkg, debfiledest) ELSE pkg
       IN  \E produced \in BOOLEAN :
              IF produced
                THEN /\ pkg' = WriteFile(removed, debfiledest, Content(debfiledest, "run"))
                     /\ DebStep(docker, debfail, "deb_cleanup_done")
                ELSE /\ pkg' = removed
                     /\ DebRaise("raise")
    /\ UNCHANGED present
    /\ DebFrame

\* l.344
Deb_CleanupDone ==
    /\ pc = "deb_cleanup_done"
    /\ \E o \in ToolOutcomes :
          /\ RunTool("docker", o)
          /\ IF o = "oserror"
               THEN DebRaise("raise")
               ELSE DebStep(DockerCleanup(docker), debfail, "deb_return")
    /\ UNCHANGED pkg
    /\ DebFrame

\* l.345
Deb_Return ==
    /\ pc = "deb_return"
    /\ DebReturn(DebFileDest(VERSION), "end")
    /\ UNCHANGED <<pkg, present>>
    /\ DebFrame

-----------------------------------------------------------------------------
(* package_mac_plain(), l.355-371, called at l.546 *)

PackageMacPlain ==
    /\ pc = "mac_plain"
    /\ IF DarwinBins = <<>>
         THEN /\ Raise("main")
              /\ UNCHANGED <<mac_pkg, pkg, present>>
         ELSE LET archive == MacArchive(VERSION, DarwinBins[1])
              IN  \E o \in ToolOutcomes :
                     /\ RunTool("tar", o)
                     /\ CASE o = "ok" ->
                                 /\ pkg' = WriteFile(pkg, archive, Content(archive, "run"))
                                 /\ mac_pkg' = archive
                                 /\ pc' = "mb_extract"
                                 /\ UNCHANGED raisedIn
                          [] Failed(o) ->
                                 /\ mac_pkg' = NONE
                                 /\ pc' = "mb_extract"
                                 /\ UNCHANGED <<raisedIn, pkg>>
                          [] OTHER ->
                                 /\ Raise("package_mac_plain")
                                 /\ UNCHANGED <<mac_pkg, pkg>>
    /\ UNCHANGED <<log, VERSION, binfiles, fetchVars, depVars,
                   linux_pkg, deb_pkg, mac_bundle, win_pkg_32, win_pkg_64,
                   tmpdirs, debLoc, macLoc, winLoc>>

-----------------------------------------------------------------------------
(* The staging tree of package_mac_bundle(): path -> content, paths relative *)
(* to the temporary directory                                                *)

HasPrefix(k, p) == Len(k) >= Len(p) /\ SubSeq(k, 1, Len(p)) = p

TreeExists(t, p) == \E k \in DOMAIN t : HasPrefix(k, p)

\* shutil.move / os.rename of a file or a directory
MoveTree(t, src, dst) ==
    LET moved(k) == IF HasPrefix(k, src)
                      THEN dst \o SubSeq(k, Len(src) + 1, Len(k))
                      ELSE k
    IN  [k2 \in {moved(k) : k \in DOMAIN t} |->
            t[CHOOSE k \in DOMAIN t : moved(k) = k2]]

TreeRemove(t, k) == [x \in DOMAIN t \ {k} |-> t[x]]

\* The tree below p, paths relative to p: what `tar -C p .` archives
Subtree(t, p) ==
    LET below == {k \in DOMAIN t : HasPrefix(k, p)}
    IN  [k2 \in {SubSeq(k, Len(p) + 1, Len(k)) : k \in below} |-> t[p \o k2]]

\* plistlib.dump / plistlib.load of the two version fields
PlistDump(info) ==
    <<"plist", info.CFBundleVersion, info.CFBundleShortVersionString>>

PlistLoad(c) == [CFBundleVersion |-> c[2], CFBundleShortVersionString |-> c[3]]

\* ./macapp/gin-Info.plist
GinInfoPlist == PlistDump([CFBundleVersion |-> "0", CFBundleShortVersionString |-> "0"])

AnnexAppRoot == <<"git-annex.app">>
PkgRoot      == <<"gin-cli">>
GinAppRoot   == PkgRoot \o <<"gin-cli.app">>
MacosDir     == GinAppRoot \o <<"Contents", "MacOS">>
IconPath     == GinAppRoot \o <<"Contents", "Resources", "git-annex.icns">>
PlistPath    == GinAppRoot \o <<"Contents", "Info.plist">>

\* What the vendor's tarball holds
VendorFull ==
    (AnnexAppRoot \o <<"Contents", "Info.plist">>
         :> PlistDump([CFBundleVersion |-> "annex", CFBundleShortVersionString |-> "annex"]))
 @@ (AnnexAppRoot \o <<"Contents", "Resources", "git-annex.icns">> :> <<"vendor", "icon">>)
 @@ (AnnexAppRoot \o <<"Contents", "MacOS", "README">> :> <<"vendor", "README">>)
 @@ (AnnexAppRoot \o <<"Contents", "MacOS", "bundle", "git-annex">> :> <<"vendor", "binary">>)
 @@ (<<"LICENSE.txt">> :> <<"vendor", "LICENSE">>)

\* ... or a tarball of another layout: a file is missing, or the bundle is
VendorTrees ==
    {VendorFull}
    \cup {TreeRemove(VendorFull, k) :
            k \in {AnnexAppRoot \o <<"Contents", "Resources", "git-annex.icns">>,
                   AnnexAppRoot \o <<"Contents", "MacOS", "README">>,
                   <<"LICENSE.txt">>}}
    \cup {<<"LICENSE.txt">> :> <<"vendor", "LICENSE">>}

\* l.391-396
MoveVendor(t) ==
    MoveTree(MoveTree(t, AnnexAppRoot, GinAppRoot),
             <<"LICENSE.txt">>, PkgRoot \o <<"git-annex-LICENSE.txt">>)

\* l.398-401
CopyBinary(t) ==
    Put(Put(t, MacosDir \o <<"bundle", "gin">>, <<"gin", "binary">>),
        PkgRoot \o <<"GIN-README.md">>, <<"gin", "README.md">>)

\* A variant of l.404-405 that leaves the icon
RemoveIconNot(t) == t

\* l.404-405
RemoveIcon(t) == TreeRemove(t, IconPath)

\* l.408-415
RewritePlist(t, ver) ==
    LET info == [PlistLoad(GinInfoPlist) EXCEPT !.CFBundleVersion = ver,
                                                !.CFBundleShortVersionString = ver]
    IN  Put(t, PlistPath, PlistDump(info))

\* l.429
AddLicense(t) == Put(t, PkgRoot \o <<"LICENSE.txt">>, <<"gin", "LICENSE">>)

\* l.432-434
ReplaceReadme(t) ==
    Put(MoveTree(t, MacosDir \o <<"README">>, MacosDir \o <<"git-annex-README">>),
        MacosDir \o <<"README">>, <<"gin", "README.md">>)

\* l.437-438
AddLaunch(t) == Put(t, MacosDir \o <<"launch">>, <<"gin", "launch-macos.sh">>)

-----------------------------------------------------------------------------
(* package_mac_bundle(), l.374-448, called at l.547 *)

MbLabels == {"mb_extract", "mb_move", "mb_copy", "mb_rmicon", "mb_plist",
             "mb_prepare", "mb_license", "mb_readme", "mb_launch", "mb_tar",
             "mb_return"}

MbReturn(val, how) ==
    /\ mac_bundle' = val
    /\ tmpdirs' = TmpCleanup(tmpdirs, "gin-macos", how)
    /\ tree' = EMPTY
    /\ pc' = "win_select"
    /\ UNCHANGED raisedIn

MbRaise(how) ==
    /\ Raise("package_mac_bundle")
    /\ tmpdirs' = TmpCleanup(tmpdirs, "gin-macos", how)
    /\ tree' = EMPTY
    /\ UNCHANGED mac_bundle

MbFrame ==
    UNCHANGED <<log, VERSION, binfiles, fetchVars, depVars, linux_pkg, deb_pkg,
                mac_pkg, win_pkg_32, win_pkg_64, debLoc, winLoc>>

\* A step of the block that changes the staging tree only
MbStep(t, next) ==
    /\ tree' = t
    /\ pc' = next
    /\ UNCHANGED <<raisedIn, mac_bundle, tmpdirs>>

\* l.379-386: ' '.join(cmd) raises TypeError when annex_tar is None
Mb_Extract ==
    /\ pc = "mb_extract"
    /\ IF mac_annex_tar = NONE
         THEN /\ Raise("package_mac_bundle")
              /\ tmpdirs' = TmpCleanup(tmpdirs \cup {"gin-macos"}, "gin-macos", "raise")
              /\ UNCHANGED <<mac_bundle, tree, present>>
         ELSE \E o \in ToolOutcomes :
                 /\ RunTool("tar", o)
                 /\ CASE o = "ok" ->
                             /\ \E t \in VendorTrees : tree' = t
                             /\ tmpdirs' = tmpdirs \cup {"gin-macos"}
                             /\ pc' = "mb_move"
                             /\ UNCHANGED <<raisedIn, mac_bundle>>
                      [] Failed(o) ->
                             /\ mac_bundle' = NONE
                             /\ tmpdirs' = TmpCleanup(tmpdirs \cup {"gin-macos"},
                                                      "gin-macos", "return")
                             /\ pc' = "win_select"
                             /\ UNCHANGED <<raisedIn, tree>>
                      [] OTHER ->
                             /\ Raise("package_mac_bundle")
                             /\ tmpdirs' = TmpCleanup(tmpdirs \cup {"gin-macos"},
                                                      "gin-macos", "raise")
                             /\ UNCHANGED <<mac_bundle, tree>>
    /\ UNCHANGED <<pkg, archived>>
    /\ MbFrame

\* l.388-396
Mb_Move ==
    /\ pc = "mb_move"
    /\ IF TreeExists(tree, AnnexAppRoot) /\ TreeExists(tree, <<"LICENSE.txt">>)
         THEN MbStep(MoveVendor(tree), "mb_copy")
         ELSE MbRaise("raise")
    /\ UNCHANGED <<pkg, archived, present>>
    /\ MbFrame

\* l.398-401
Mb_Copy ==
    /\ pc = "mb_copy"
    /\ MbStep(CopyBinary(tree), "mb_rmicon")
    /\ UNCHANGED <<pkg, archived, present>>
    /\ MbFrame

\* l.404-405
Mb_RemoveIcon ==
    /\ pc = "mb_rmicon"
    /\ IF TreeExists(tree, IconPath)
         THEN MbStep(RemoveIcon(tree), "mb_plist")
         ELSE MbRaise("raise")
    /\ UNCHANGED <<pkg, archived, present>>
    /\ MbFrame

\* l.408-415
Mb_Plist ==
    /\ pc = "mb_plist"
    /\ MbStep(RewritePlist(tree, VERSION), "mb_prepare")
    /\ UNCHANGED <<pkg, archived, present>>
    /\ MbFrame

\* l.417-426
Mb_Prepare ==
    /\ pc = "mb_prepare"
    /\ LET archive == BundleArchive(VERSION, DarwinBins[1])
       IN  pkg' = IF Exists(pkg, archive) THEN Unlink(pkg, archive) ELSE pkg
    /\ pc' = "mb_license"
    /\ UNCHANGED <<raisedIn, mac_bundle, tmpdirs, tree, archived, present>>
    /\ MbFrame

\* l.429
Mb_License ==
    /\ pc = "mb_license"
    /\ MbStep(AddLicense(tree), "mb_readme")
    /\ UNCHANGED <<pkg, archived, present>>
    /\ MbFrame

\* l.432-434
Mb_Readme ==
    /\ pc = "mb_readme"
    /\ IF TreeExists(tree, MacosDir \o <<"README">>)
         THEN MbStep(ReplaceReadme(tree), "mb_launch")
         ELSE MbRaise("raise")
    /\ UNCHANGED <<pkg, archived, present>>
    /\ MbFrame

\* l.437-438
Mb_Launch ==
    /\ pc = "mb_launch"
    /\ MbStep(AddLaunch(tree), "mb_tar")
    /\ UNCHANGED <<pkg, archived, present>>
    /\ MbFrame

\* l.441-446
Mb_Tar ==
    /\ pc = "mb_tar"
    /\ LET archive == BundleArchive(VERSION, DarwinBins[1])
       IN  \E o \in ToolOutcomes :
              /\ RunTool("tar", o)
              /\ CASE o = "ok" ->
                          /\ pkg' = WriteFile(pkg, archive, Content(archive, "run"))
                          /\ archived' = Subtree(tree, PkgRoot)
                          /\ pc' = "mb_return"
                          /\ UNCHANGED <<raisedIn, mac_bundle, tmpdirs, tree>>
                   [] Failed(o) ->
                          /\ MbReturn(NONE, "return")
                          /\ UNCHANGED <<pkg, archived>>
                   [] OTHER ->
                          /\ MbRaise("raise")
                          /\ UNCHANGED <<pkg, archived>>
    /\ MbFrame

\* l.447-448
Mb_Return ==
    /\ pc = "mb_return"
    /\ MbReturn(BundleArchive(VERSION, DarwinBins[1]), "end")
    /\ UNCHANGED <<pkg, archived, present>>
    /\ MbFrame


-----------------------------------------------------------------------------
(* main(), l.549-552, and winbundle(), l.451-501, called at l.554-555 *)

StartDir    == "repo"
WinPkgRoot  == "tmpdir/gin"

Win386Bins == SelectSeq(WinBins, LAMBDA wb : In("386", wb))
Win64Bins  == SelectSeq(WinBins, LAMBDA wb : In("amd64", wb))

\* The comprehensions of l.551-552 test `"32-bit" in wg` on every element:
\* None raises TypeError
HasNone(files) == \E i \in DOMAIN files : files[i] = NONE

WinGit32 == SelectSeq(win_git_files, LAMBDA wg : In("32-bit", wg))
WinGit64 == SelectSeq(win_git_files, LAMBDA wg : In("64-bit", wg))

\* l.549-552: [0] of an empty list raises IndexError
Main_WinSelect ==
    /\ pc = "win_select"
    /\ IF \/ Win386Bins = <<>>
          \/ Win64Bins = <<>>
          \/ HasNone(win_git_files)
          \/ WinGit32 = <<>>
          \/ WinGit64 = <<>>
         THEN /\ Raise("main")
              /\ UNCHANGED wbits
         ELSE /\ wbits' = "32"
              /\ pc' = "wb_stage"
              /\ UNCHANGED raisedIn
    /\ UNCHANGED <<log, VERSION, binfiles, fetchVars, depVars, resVars, pkg,
                   tmpdirs, debLoc, macLoc, cwd, oldwd, present>>

WbLabels == {"wb_stage", "wb_7z_git", "wb_7z_annex", "wb_chdir", "wb_zip",
             "wb_restore", "wb_return"}

\* The binfile argument of the running call
WinBin == IF wbits = "32" THEN Win386Bins[1] ELSE Win64Bins[1]

\* winbundle() returns val: to l.554, and l.555 calls it again, or to l.555
WbReturn(val, how) ==
    /\ tmpdirs' = TmpCleanup(tmpdirs, "gin-windows", how)
    /\ oldwd' = ""
    /\ IF wbits = "32"
         THEN /\ win_pkg_32' = val
              /\ wbits' = "64"
              /\ pc' = "wb_stage"
              /\ UNCHANGED win_pkg_64
         ELSE /\ win_pkg_64' = val
              /\ wbits' = "none"
              /\ pc' = "al_linux"
              /\ UNCHANGED win_pkg_32
    /\ UNCHANGED raisedIn

WbRaise(how) ==
    /\ Raise("winbundle")
    /\ tmpdirs' = TmpCleanup(tmpdirs, "gin-windows", how)
    /\ UNCHANGED <<oldwd, wbits, win_pkg_32, win_pkg_64>>

WbFrame ==
    UNCHANGED <<log, VERSION, binfiles, fetchVars, depVars, linux_pkg, deb_pkg,
                mac_pkg, mac_bundle, debLoc, macLoc>>

\* A step that stays in the block
WbStep(next) ==
    /\ pc' = next
    /\ UNCHANGED <<raisedIn, tmpdirs, oldwd, wbits, win_pkg_32, win_pkg_64>>

\* l.455-465
Wb_Stage ==
    /\ pc = "wb_stage"
    /\ tmpdirs' = tmpdirs \cup {"gin-windows"}
    /\ pc' = "wb_7z_git"
    /\ UNCHANGED <<raisedIn, win_pkg_32, win_pkg_64, pkg, cwd, oldwd, wbits, present>>
    /\ WbFrame

\* l.468-473
Wb_ExtractGit ==
    /\ pc = "wb_7z_git"
    /\ \E o \in ToolOutcomes :
          /\ RunTool("7z", o)
          /\ CASE o = "ok"  -> WbStep("wb_7z_annex")
               [] Failed(o) -> WbReturn(NONE, "return")
               [] OTHER     -> WbRaise("raise")
    /\ UNCHANGED <<pkg, cwd>>
    /\ WbFrame

\* l.475-480
Wb_ExtractAnnex ==
    /\ pc = "wb_7z_annex"
    /\ \E o \in ToolOutcomes :
          /\ RunTool("7z", o)
          /\ CASE o = "ok"  -> WbStep("wb_chdir")
               [] Failed(o) -> WbReturn(NONE, "return")
               [] OTHER     -> WbRaise("raise")
    /\ UNCHANGED <<pkg, cwd>>
    /\ WbFrame

\* l.481-492
Wb_Chdir ==
    /\ pc = "wb_chdir"
    /\ LET arc == WinArchive(VERSION, WinBin)
       IN  pkg' = IF Exists(pkg, arc) THEN Unlink(pkg, arc) ELSE pkg
    /\ oldwd' = cwd
    /\ cwd' = WinPkgRoot
    /\ pc' = "wb_zip"
    /\ UNCHANGED <<raisedIn, tmpdirs, wbits, win_pkg_32, win_pkg_64, present>>
    /\ WbFrame

\* l.493-498
Wb_Zip ==
    /\ pc = "wb_zip"
    /\ LET arc == WinArchive(VERSION, WinBin)
       IN  \E o \in ToolOutcomes :
              /\ RunTool("zip", o)
              /\ CASE o = "ok" ->
                          /\ pkg' = WriteFile(pkg, arc, Content(arc, "run"))
                          /\ WbStep("wb_restore")
                          /\ UNCHANGED cwd
                   [] Failed(o) ->
                          /\ cwd' = oldwd
                          /\ WbReturn(NONE, "return")
                          /\ UNCHANGED pkg
                   [] OTHER ->
                          /\ WbRaise("raise")
                          /\ UNCHANGED <<pkg, cwd>>
    /\ WbFrame

\* l.499
Wb_Restore ==
    /\ pc = "wb_restore"
    /\ cwd' = oldwd
    /\ WbStep("wb_return")
    /\ UNCHANGED <<pkg, present>>
    /\ WbFrame

\* l.500-501
Wb_Return ==
    /\ pc = "wb_return"
    /\ WbReturn(WinArchive(VERSION, WinBin), "end")
    /\ UNCHANGED <<pkg, cwd, present>>
    /\ WbFrame

-----------------------------------------------------------------------------
(* main(), l.557-604: the aliases *)

\* os.link raises when the source is not there or the target is
LinkRaises(fs, fname, ver) ==
    LET latestname == Replace(fname, ver, "latest")
        fs1 == IF Exists(fs, latestname) THEN Unlink(fs, latestname) ELSE fs
    IN  ~Exists(fs1, fname) \/ Exists(fs1, latestname)

\* A variant of link_latest() that keeps an alias that is there already
LinkLatestKeep(fs, fname, ver) ==
    LET latestname == Replace(fname, ver, "latest")
    IN  IF Exists(fs, latestname) THEN fs ELSE HardLink(fs, fname, latestname)

\* link_latest(fname), l.557-566
LinkLatest(fs, fname, ver) ==
    LET latestname == Replace(fname, ver, "latest")
        fs1 == IF Exists(fs, latestname) THEN Unlink(fs, latestname) ELSE fs
    IN  HardLink(fs1, fname, latestname)

\* `if x: link_latest(x)`
Alias(label, x, next) ==
    /\ pc = label
    /\ IF x = NONE
         THEN /\ pc' = next
              /\ UNCHANGED <<raisedIn, pkg>>
         ELSE IF LinkRaises(pkg, x, VERSION)
                THEN /\ Raise("link_latest")
                     /\ UNCHANGED pkg
                ELSE /\ pkg' = LinkLatest(pkg, x, VERSION)
                     /\ pc' = next
                     /\ UNCHANGED raisedIn
    /\ UNCHANGED <<log, VERSION, binfiles, fetchVars, depVars, resVars, locVars>>

Alias_Linux  == Alias("al_linux", linux_pkg, "al_deb")
Alias_Deb    == Alias("al_deb", deb_pkg, "al_mac")
Alias_Mac    == Alias("al_mac", mac_pkg, "al_bundle")
Alias_Bundle == Alias("al_bundle", mac_bundle, "al_win32")
Alias_Win32  == Alias("al_win32", win_pkg_32, "al_win64")
Alias_Win64  == Alias("al_win64", win_pkg_64, "done")

-----------------------------------------------------------------------------
(* The run *)

\* dist/ of a fresh checkout, or as an earlier run left it: the downloads
\* with their etags
InitFetched ==
    \/ /\ etagfile = EMPTY
       /\ downloads = EMPTY
    \/ /\ etagfile = [u \in {AnnexUrl, P32.browser_download_url,
                             P64.browser_download_url} |-> "e1"]
       /\ downloads = [f \in {Fname(AnnexUrl), Fname(P32.browser_download_url),
                              Fname(P64.browser_download_url)} |-> MaxSize]

InitProcess ==
    /\ raisedIn = NOWHERE
    /\ log = {}
    /\ ETAGS = EMPTY
    /\ req = NOREQ
    /\ dlfor = NOWHERE
    /\ assets = <<>>
    /\ downloaded = <<>>
    /\ fresh = {}
    /\ saved = FALSE
    /\ runs = 1
    /\ changes = 0
    /\ annexsa_file = NONE
    /\ win_git_files = <<>>
    /\ mac_annex_tar = NONE
    /\ linux_pkg = NONE
    /\ deb_pkg = NONE
    /\ mac_pkg = NONE
    /\ mac_bundle = NONE
    /\ win_pkg_32 = NONE
    /\ win_pkg_64 = NONE
    /\ tmpdirs = {}
    /\ docker = <<>>
    /\ debfail = {}
    /\ tree = EMPTY
    /\ archived = EMPTY
    /\ cwd = StartDir
    /\ oldwd = ""
    /\ wbits = "none"
    /\ present = {}

Init ==
    /\ pc = "build_ver"
    /\ VERSION = ""
    /\ binfiles = <<>>
    /\ remote = [u \in Urls |-> [etag |-> "e1", size |-> MaxSize]]
    /\ etagfile = EMPTY
    /\ downloads = EMPTY
    /\ pkg \in {EmptyPkg} \cup {EarlierPkg(v) : v \in Versions}
    /\ InitProcess

Next ==
    \/ Build_Version
    \/ Build_Vcs
    \/ Build_Gox
    \/ Build_Glob
    \/ Build_Check
    \/ LoadEtags
    \/ DownloadAnnexSa
    \/ Dl_Get
    \/ Dl_Check
    \/ Dl_Body
    \/ Gw_Api
    \/ Gw_Loop
    \/ CheckMacosTarball
    \/ SaveEtags
    \/ Main_CheckCount
    \/ Main_FilterBins
    \/ PackageLinuxPlain
    \/ Deb_Cleanup
    \/ Deb_Build
    \/ Deb_Stage
    \/ Deb_Gzip
    \/ Deb_Tar
    \/ Deb_Run
    \/ Deb_CleanupFail
    \/ Deb_ReturnNone
    \/ Deb_Copy
    \/ Deb_CleanupDone
    \/ Deb_Return
    \/ PackageMacPlain
    \/ Mb_Extract
    \/ Mb_Move
    \/ Mb_Copy
    \/ Mb_RemoveIcon
    \/ Mb_Plist
    \/ Mb_Prepare
    \/ Mb_License
    \/ Mb_Readme
    \/ Mb_Launch
    \/ Mb_Tar
    \/ Mb_Return
    \/ Main_WinSelect
    \/ Wb_Stage
    \/ Wb_ExtractGit
    \/ Wb_ExtractAnnex
    \/ Wb_Chdir
    \/ Wb_Zip
    \/ Wb_Restore
    \/ Wb_Return
    \/ Alias_Linux
    \/ Alias_Deb
    \/ Alias_Mac
    \/ Alias_Bundle
    \/ Alias_Win32
    \/ Alias_Win64

Spec == Init /\ [][Next]_vars


-----------------------------------------------------------------------------
(* The fetch stage run again and again, the remote resources changing *)

InitFetch ==
    /\ pc = "load_etags"
    /\ VERSION = "1.0"
    /\ binfiles = <<L64, D64, W386, W64>>
    /\ remote = [u \in Urls |-> [etag |-> "e1", size |-> MaxSize]]
    /\ InitFetched
    /\ pkg = EmptyPkg
    /\ InitProcess

\* The script is started again: a new process, the same dist/.  What the
\* last run transferred is known to the next only through dist/etags.
NewRun ==
    /\ pc \in {"check_count", "raised"}
    /\ runs < MaxRuns
    /\ runs' = runs + 1
    /\ pc' = "load_etags"
    /\ raisedIn' = NOWHERE
    /\ ETAGS' = EMPTY
    /\ req' = NOREQ
    /\ dlfor' = NOWHERE
    /\ assets' = <<>>
    /\ downloaded' = <<>>
    /\ annexsa_file' = NONE
    /\ win_git_files' = <<>>
    /\ mac_annex_tar' = NONE
    /\ fresh' = IF saved THEN fresh ELSE {}
    /\ saved' = FALSE
    /\ UNCHANGED <<log, VERSION, binfiles, remote, etagfile, downloads, changes,
                   resVars, pkg, locVars>>

\* A remote resource is replaced.  The script sees the servers in download()
\* only: a change at another moment is the same change before the next request.
RemoteChange ==
    /\ pc \in {"dl_get", "dl_check", "dl_body"}
    /\ changes < MaxChanges
    /\ changes' = changes + 1
    /\ \E u \in Urls \ {G64.browser_download_url} :
          /\ \E v \in RemoteVals \ {remote[u]} : remote' = [remote EXCEPT ![u] = v]
          /\ fresh' = fresh \ {u}
    /\ UNCHANGED <<mainVars, ETAGS, etagfile, downloads, req, dlfor, assets,
                   downloaded, saved, runs, depVars, resVars, pkg, locVars>>

\* The release as the API lists it here: the two portable archives and an
\* installer, or an archive listed twice
ReleaseLists == {<<G64, P32, P64>>, <<P32, P32>>}

Gw_ApiRelease == Gw_ApiFrom(ReleaseLists)

NextFetch ==
    \/ LoadEtags
    \/ DownloadAnnexSa
    \/ Dl_Get
    \/ Dl_Check
    \/ Dl_Body
    \/ Gw_ApiRelease
    \/ Gw_Loop
    \/ CheckMacosTarball
    \/ SaveEtags
    \/ NewRun
    \/ RemoteChange

SpecFetch == InitFetch /\ [][NextFetch]_vars

-----------------------------------------------------------------------------
(* Properties *)

\* The labels of main() from its first packager call to its last
PackLabels ==
    {"linux_plain"} \cup DebLabels \cup {"mac_plain"} \cup MbLabels
    \cup {"win_select"} \cup WbLabels

AliasLabels == {"al_linux", "al_deb", "al_mac", "al_bundle", "al_win32", "al_win64"}

\* The run has passed the count of the binaries, l.534
AfterFilter ==
    \/ pc \in PackLabels \cup AliasLabels \cup {"done"}
    \/ pc = "raised" /\ raisedIn \in {"main", "package_linux_plain", "debianize",
                                      "package_mac_plain", "package_mac_bundle",
                                      "winbundle", "link_latest"}

\* docker run is among the commands issued
RunStarted(cmds) == \E i \in DOMAIN cmds : cmds[i] = "run"

\* The last commands issued are those of docker_cleanup()
EndsWithCleanup(cmds) ==
    /\ Len(cmds) >= 2
    /\ cmds[Len(cmds) - 1] = "kill"
    /\ cmds[Len(cmds)] = "rm"

\* C1: debianize issues the container cleanup (docker kill, docker container
\* rm) before any other docker command, and whenever it is left after docker
\* run was started (by a return or by an exception, the copy of the .deb
\* failing included) the cleanup is the last thing it has issued.
C1_CleanupOnEveryExit ==
    [][ /\ (docker' # <<>> => Len(docker') >= 2 /\ SubSeq(docker', 1, 2) = <<"kill", "rm">>)
        /\ (pc \in DebLabels /\ pc' \notin DebLabels /\ RunStarted(docker))
              => EndsWithCleanup(docker)
      ]_vars

\* C2: whenever winbundle is not running (before the first call, between the
\* two calls, after a return of either kind or after an exception out of it)
\* the working directory is the one the script was started in.
C2_WorkingDirectoryRestored ==
    (pc \notin WbLabels \/ pc = "wb_stage") => cwd = StartDir

\* Exactly two portable Git archives, none absent, one 32-bit and one 64-bit
TwoGitArchives ==
    /\ Len(win_git_files) = 2
    /\ ~HasNone(win_git_files)
    /\ Len(WinGit32) = 1
    /\ Len(WinGit64) = 1

\* C3: a packager is invoked only when exactly two portable Git archives for
\* Windows are there, one 32-bit and one 64-bit; in every other case the run
\* has exited with status 1 before the first packager.
C3_PackagersNeedBothGitArchives ==
    pc \in PackLabels => TwoGitArchives

\* C4: a packager whose dependency artifact is absent (the standalone
\* git-annex of debianize, the macOS tarball of package_mac_bundle) yields no
\* archive, and main goes on to the next packager.
C4_AbsentDependencySkipsOutput ==
    [][ /\ (pc = "deb_tar" /\ annexsa_file = NONE)
              => (pc' = "mac_plain" /\ deb_pkg' = NONE)
        /\ (pc = "mb_extract" /\ mac_annex_tar = NONE)
              => (pc' = "win_select" /\ mac_bundle' = NONE)
      ]_vars

\* The set of built binaries is not one for Linux, one for macOS and two for
\* Windows
WrongCount ==
    Len(LinuxBins) # 1 \/ Len(WinBins) # 2 \/ Len(DarwinBins) # 1

\* C5, as claimed: a run whose set of binaries has a wrong count never comes to
\* its normal end.
C5_WrongCountNeverCompletes ==
    pc = "done" => ~WrongCount

\* C5, as the code has it: a wrong count is reported before the first packager
\* (and only a wrong count is), and the run goes on: it comes to its normal end
\* only if every platform has a binary and Windows has one of each
\* architecture, and each archive is then made from the first binary that
\* matches.
C5_WrongCountReportedNotFatal ==
    /\ AfterFilter => (WrongCount <=> "Unexpected number of binaries" \in log)
    /\ pc = "done" =>
          /\ LinuxBins # <<>> /\ DarwinBins # <<>>
          /\ Win386Bins # <<>> /\ Win64Bins # <<>>
          /\ linux_pkg \in {NONE, LinuxArchive(VERSION, LinuxBins[1])}
          /\ mac_pkg \in {NONE, MacArchive(VERSION, DarwinBins[1])}
          /\ mac_bundle \in {NONE, BundleArchive(VERSION, DarwinBins[1])}
          /\ win_pkg_32 \in {NONE, WinArchive(VERSION, Win386Bins[1])}
          /\ win_pkg_64 \in {NONE, WinArchive(VERSION, Win64Bins[1])}

\* A run with two Linux binaries has come to its normal end, the Linux archive
\* made from the first of them
C5_Witness ==
    /\ pc = "done"
    /\ Len(LinuxBins) = 2
    /\ "Unexpected number of binaries" \in log
    /\ linux_pkg = LinuxArchive(VERSION, L386)

\* C6: when a step of the Debian chain has exited non-zero, debianize writes
\* no .deb into dist/pkg and what it returns is None.
C6_NoDebAfterFailedStep ==
    [][ (pc \in DebLabels /\ debfail # {}) =>
            /\ (pkg' # pkg => ~Exists(pkg', DebFileDest(VERSION)))
            /\ (pc' \notin DebLabels /\ pc' # "raised" => deb_pkg' = NONE)
      ]_vars

\* C7: the staging directory of debianize, of package_mac_bundle and of
\* winbundle is there only while the procedure runs: it is not there before a
\* call, and it is gone after every return and after an exception out of the
\* procedure.
C7_StagingDirectoryRemoved ==
    /\ "gin-linux" \in tmpdirs => pc \in DebLabels \ {"deb_cleanup", "deb_build"}
    /\ "gin-macos" \in tmpdirs => pc \in MbLabels \ {"mb_extract"}
    /\ "gin-windows" \in tmpdirs => pc \in WbLabels \ {"wb_stage"}

\* An exception has left winbundle after the staging directory was made and
\* entered: the directory is gone
C7_Witness ==
    /\ pc = "raised"
    /\ raisedIn = "winbundle"
    /\ cwd = WinPkgRoot
    /\ "gin-windows" \notin tmpdirs

\* What the packagers returned, None left out
Made ==
    {linux_pkg, deb_pkg, mac_pkg, mac_bundle, win_pkg_32, win_pkg_64} \ {NONE}

AliasOf(x) == Replace(x, VERSION, "latest")

\* The other names of the file x
OtherNames(fs, x) == {n \in DOMAIN fs.dir : n # x /\ fs.dir[n] = fs.dir[x]}

\* C8: link_latest never raises, and at the normal end of a run, whatever
\* dist/pkg held at its start, every archive a packager returned has exactly
\* one other name, the one with "latest" for the version, which is the same
\* file with this run's content; every other "latest" name is one an earlier
\* run left.
C8_OneAliasPerArchive ==
    /\ ~(pc = "raised" /\ raisedIn = "link_latest")
    /\ pc = "done" =>
          /\ \A x \in Made :
                /\ Exists(pkg, x)
                /\ OtherNames(pkg, x) = {AliasOf(x)}
                /\ pkg.data[pkg.dir[AliasOf(x)]] = Content(x, "run")
          /\ \A n \in DOMAIN pkg.dir :
                (In("latest", n) /\ n \notin {AliasOf(x) : x \in Made})
                    => pkg.data[pkg.dir[n]].gen = "earlier"

\* A run of 1.0 has come to its normal end in a dist/pkg that a run of 1.1
\* had filled, with a Linux archive and without a Debian package
C8_Witness ==
    /\ pc = "done"
    /\ VERSION = "1.0"
    /\ linux_pkg # NONE
    /\ deb_pkg = NONE
    /\ Exists(pkg, LinuxArchive("1.1", L64))

DlLabels == {"dl_get", "dl_check", "dl_body"}

\* download() hands val to its caller
Returns(val) ==
    IF dlfor = "download_annex_sa"
      THEN annexsa_file' = val
      ELSE downloaded' = Append(downloaded, val)

\* C9, as claimed: an invocation of download() for a URL whose last transfer
\* was complete and whose remote resource has not changed since returns the
\* path of the file, and leaves the file and the etag cache as they are.
C9_SecondDownloadReturnsCachedPath ==
    [][ (pc \in DlLabels /\ pc' \notin DlLabels /\ req.url \in fresh) =>
            /\ Returns(Fname(req.url))
            /\ ETAGS' = ETAGS
            /\ downloads' = downloads
      ]_vars

\* C9, as the code has it: such an invocation never reads the body and leaves
\* the file and the etag cache as they are; it returns the path of the file
\* when the server answers, and None when the request fails.
C9_SecondDownloadSkipsBody ==
    [][ (pc \in DlLabels /\ pc' # pc /\ req.url \in fresh) =>
            /\ pc' # "dl_body"
            /\ ETAGS' = ETAGS
            /\ downloads' = downloads
            /\ pc = "dl_check" => Returns(Fname(req.url))
            /\ pc = "dl_get" => (pc' = "dl_check" \/ Returns(NONE))
      ]_vars

\* The second run has the answer to its request for a resource that changed
\* to e2 and that the first run transferred completely
C9_Witness ==
    /\ pc = "dl_check"
    /\ runs = 2
    /\ req.url \in fresh
    /\ req.etag = "e2"
    /\ Get(ETAGS, req.url) = "e2"

\* A path of the staging tree, relative to the root of the archive
Rel(p) == SubSeq(p, Len(PkgRoot) + 1, Len(p))

\* The tree t of an archive holds no vendor icon, this project's LICENSE.txt
\* and README, the vendor's only under their git-annex-* names, and an
\* Info.plist with both version fields set to the version of the run
BundleOk(t) ==
    /\ Rel(IconPath) \notin DOMAIN t
    /\ \A k \in DOMAIN t : t[k] # <<"vendor", "icon">>
    /\ <<"LICENSE.txt">> \in DOMAIN t
    /\ t[<<"LICENSE.txt">>] = <<"gin", "LICENSE">>
    /\ Rel(MacosDir \o <<"README">>) \in DOMAIN t
    /\ t[Rel(MacosDir \o <<"README">>)] = <<"gin", "README.md">>
    /\ \A k \in DOMAIN t :
          /\ t[k] = <<"vendor", "LICENSE">> => k = <<"git-annex-LICENSE.txt">>
          /\ t[k] = <<"vendor", "README">> => k = Rel(MacosDir \o <<"git-annex-README">>)
    /\ Rel(PlistPath) \in DOMAIN t
    /\ PlistLoad(t[Rel(PlistPath)]).CFBundleVersion = VERSION
    /\ PlistLoad(t[Rel(PlistPath)]).CFBundleShortVersionString = VERSION

\* C10: the archiving step of package_mac_bundle finds the staging tree
\* prepared (vendor bundle renamed, icon deleted, Info.plist rewritten, license
\* and README replaced), so what is archived is, and an archive is returned
\* only after it was made.
C10_BundlePreparedBeforeArchiving ==
    /\ pc = "mb_tar" => BundleOk(Subtree(tree, PkgRoot))
    /\ DOMAIN archived # {} => BundleOk(archived)
    /\ mac_bundle # NONE => DOMAIN archived # {}

\* package_mac_bundle has returned an archive that holds the vendor's README
\* and license under their new names
C10_Witness ==
    /\ mac_bundle # NONE
    /\ <<"git-annex-LICENSE.txt">> \in DOMAIN archived
    /\ Rel(MacosDir \o <<"git-annex-README">>) \in DOMAIN archived

\* The run has ended in build(): by die("Build failed") with exit status 1,
\* or by an exception out of build() (check_output of the git commands, of
\* l.124 and l.126, raising), which ends the interpreter with status 1
BuildAborted ==
    \/ pc = "exit1" /\ "Build failed" \in log
    \/ pc = "raised" /\ raisedIn = "build"

\* Nothing of the fetch stage, of the packagers or of the alias step has
\* happened: no request, no file or etag written, no tool but gox started, no
\* archive written and no alias changed
NothingAfterBuild ==
    /\ ETAGS = EMPTY /\ etagfile = EMPTY /\ downloads = EMPTY
    /\ req = NOREQ /\ ~saved
    /\ annexsa_file = NONE /\ win_git_files = <<>> /\ mac_annex_tar = NONE
    /\ linux_pkg = NONE /\ deb_pkg = NONE /\ mac_pkg = NONE
    /\ mac_bundle = NONE /\ win_pkg_32 = NONE /\ win_pkg_64 = NONE
    /\ present \subseteq {"gox"}
    /\ docker = <<>> /\ tmpdirs = {} /\ DOMAIN archived = {} /\ cwd = StartDir
    /\ \A i \in DOMAIN pkg.data : pkg.data[i].gen = "earlier"
    /\ \A n \in DOMAIN pkg.dir : In("latest", n) =>
          \E m \in DOMAIN pkg.dir : m # n /\ pkg.dir[m] = pkg.dir[n]

\* C11: once "Build failed" is printed (gox exited non-zero) the run has ended
\* with status 1, and a failing git lookup ends it by an exception out of
\* build(); a run ended in build() has executed no download, no packager and
\* no alias step, and executes nothing afterwards.
C11_BuildFailureAbortsRun ==
    /\ []("Build failed" \in log => pc = "exit1")
    /\ [](BuildAborted => NothingAfterBuild)
    /\ [][ /\ ~BuildAborted
           /\ pc = "build_vcs" => (pc' = "build_gox" \/ BuildAborted')
           /\ pc = "build_gox" => (pc' = "build_glob" \/ BuildAborted')
         ]_vars

\* gox has exited non-zero in a checkout whose dist/pkg an earlier run filled
C11_Witness ==
    /\ pc = "exit1"
    /\ "Build failed" \in log
    /\ "gox" \in present
    /\ pkg # EmptyPkg

=============================================================================
